---- MODULE Spec2Model ----
(***************************************************************************)
(* The signed download link of the image shop: generateSignedUrl and       *)
(* verifySignedUrl (utils.js, kept as src/unnamed/part_001), and the       *)
(* fulfil-order and download handlers that use them (src/server.js, with   *)
(* the earlier revision of the same file kept as src/unnamed/part_000).    *)
(*                                                                         *)
(* Strings are sequences of character codes (ASCII).  The WHATWG URL       *)
(* parser and URLSearchParams that both functions lean on are modelled by  *)
(* what they do to such a string: host and port checks, backslash and      *)
(* dot-segment handling of the path, percent-encoding of path and query,   *)
(* form decoding and encoding of the parameters.                           *)
(***************************************************************************)
EXTENDS Integers, Sequences, FiniteSets

(***************************************************************************)
(* Characters.                                                             *)
(***************************************************************************)

\* The printable ASCII characters, in code order from 32 (space) to 126.
Printable ==
    << " ", "!", "\"", "#", "$", "%", "&", "'", "(", ")", "*", "+", ",", "-",
       ".", "/", "0", "1", "2", "3", "4", "5", "6", "7", "8", "9", ":", ";",
       "<", "=", ">", "?", "@", "A", "B", "C", "D", "E", "F", "G", "H", "I",
       "J", "K", "L", "M", "N", "O", "P", "Q", "R", "S", "T", "U", "V", "W",
       "X", "Y", "Z", "[", "\\", "]", "^", "_", "grave", "a", "b", "c", "d", "e",
       "f", "g", "h", "i", "j", "k", "l", "m", "n", "o", "p", "q", "r", "s",
       "t", "u", "v", "w", "x", "y", "z", "{", "|", "}", "~" >>

\* The code of a one-character string.
Ord(c) == 31 + (CHOOSE i \in 1..Len(Printable) : Printable[i] = c)

\* The string (sequence of codes) spelled by a tuple of one-character strings.
Str(cs) == [i \in 1..Len(cs) |-> Ord(cs[i])]

\* U+FFFD, what the UTF-8 decoder makes of a byte that is not valid UTF-8.
Replacement == 65533

IsDigit(c) == c \in 48..57
IsUpper(c) == c \in 65..90
IsLower(c) == c \in 97..122
IsAlpha(c) == IsUpper(c) \/ IsLower(c)
IsAlnum(c) == IsDigit(c) \/ IsAlpha(c)
IsHex(c) == IsDigit(c) \/ c \in 65..70 \/ c \in 97..102

HexVal(c) ==
    IF IsDigit(c) THEN c - 48
    ELSE IF c \in 65..70 THEN c - 55
    ELSE c - 87

\* One hexadecimal digit, upper case (the URL encoders) or lower case (the hex digest).
UpperHexDigit(n) == IF n < 10 THEN 48 + n ELSE 55 + n
LowerHexDigit(n) == IF n < 10 THEN 48 + n ELSE 87 + n

\* "%XX" for one byte.
PercentByte(b) == << 37, UpperHexDigit(b \div 16), UpperHexDigit(b % 16) >>

\* The UTF-8 bytes of one code point (ASCII, or U+FFFD as EF BF BD).
Utf8Bytes(c) == IF c = Replacement THEN << 239, 191, 189 >> ELSE << c >>

\* The concatenation of a sequence of strings (by halves, to keep the
\* evaluation shallow).
RECURSIVE Flatten(_)
Flatten(ss) ==
    IF ss = << >> THEN << >>
    ELSE IF Len(ss) = 1 THEN ss[1]
    ELSE LET h == Len(ss) \div 2
         IN  Flatten(SubSeq(ss, 1, h)) \o Flatten(SubSeq(ss, h + 1, Len(ss)))

\* Number of bytes Buffer.from(string) holds.
ByteLength(s) == Len(Flatten([i \in 1..Len(s) |-> Utf8Bytes(s[i])]))

\* Index of the first element of s in the set cs, or 0.
FirstIn(s, cs) ==
    LET at == {i \in 1..Len(s) : s[i] \in cs}
    IN  IF at = {} THEN 0 ELSE CHOOSE i \in at : \A j \in at : i <= j

Before(s, i) == IF i = 0 THEN s ELSE SubSeq(s, 1, i - 1)
After(s, i) == IF i = 0 THEN << >> ELSE SubSeq(s, i + 1, Len(s))

\* s split at every element of the set cs.
RECURSIVE Split(_, _)
Split(s, cs) ==
    LET i == FirstIn(s, cs)
    IN  IF i = 0 THEN << s >> ELSE << Before(s, i) >> \o Split(After(s, i), cs)

RECURSIVE Join(_, _)
Join(ss, sep) ==
    IF ss = << >> THEN << >>
    ELSE IF Len(ss) = 1 THEN Head(ss)
    ELSE Head(ss) \o sep \o Join(Tail(ss), sep)

\* Percent-decoding to bytes, then UTF-8 decoding: a byte above 127 that is
\* not part of a well-formed sequence becomes U+FFFD.  (The inputs of the
\* model never hold a well-formed multi-byte sequence.)
PercentDecode(s) ==
    LET escape(i) == /\ i >= 1 /\ i + 2 <= Len(s)
                     /\ s[i] = 37 /\ IsHex(s[i + 1]) /\ IsHex(s[i + 2])
        byte(i) == 16 * HexVal(s[i + 1]) + HexVal(s[i + 2])
    IN  Flatten([i \in 1..Len(s) |->
            IF escape(i) THEN << IF byte(i) > 127 THEN Replacement ELSE byte(i) >>
            ELSE IF escape(i - 1) \/ escape(i - 2) THEN << >>
            ELSE << s[i] >>])

\* Percent-encode the code points of s that lie in the set cs.
PercentEncode(s, cs) ==
    Flatten([i \in 1..Len(s) |->
        IF s[i] \in cs \/ s[i] = Replacement
        THEN Flatten([j \in 1..Len(Utf8Bytes(s[i])) |-> PercentByte(Utf8Bytes(s[i])[j])])
        ELSE << s[i] >>])

(***************************************************************************)
(* new URL(string): the WHATWG URL parser, for the one origin the shop     *)
(* uses.                                                                   *)
(***************************************************************************)

\* One code that stands for the characters of 'https://imagestock-shop.onrender.com'.
OriginMark == 100000

\* One code that stands for the characters of 'imagestock-shop.onrender.com'
\* (letters, "-" and "."), where they turn up outside the host.
HostMark == 100001

\* const YOUR_DOMAIN = 'https://imagestock-shop.onrender.com'
YOUR_DOMAIN == << OriginMark >>

\* Leading and trailing C0 controls and spaces are removed from the input.
RECURSIVE StripLeft(_)
StripLeft(s) ==
    IF s # << >> /\ Head(s) <= 32 THEN StripLeft(Tail(s)) ELSE s

RECURSIVE StripRight(_)
StripRight(s) ==
    IF s # << >> /\ s[Len(s)] <= 32 THEN StripRight(SubSeq(s, 1, Len(s) - 1)) ELSE s

\* Forbidden domain code points: the forbidden host code points, the C0
\* controls, "%" and DEL; a U+FFFD is refused by the domain-to-ASCII step.
ForbiddenDomain ==
    (0..32) \cup {34, 35, 37, 47, 58, 60, 62, 63, 64, 91, 92, 93, 94, 124, 127}

\* The last label of the host is a number (decimal, or 0x and hex digits):
\* the host is then parsed as an IPv4 address, which the labels of the shop's
\* domain in front of it make fail.  ext is what follows the domain.
EndsInNumber(ext) ==
    LET labels == Split(ext, {46})
        kept == IF Len(labels) > 1 /\ labels[Len(labels)] = << >>
                THEN SubSeq(labels, 1, Len(labels) - 1) ELSE labels
        last == kept[Len(kept)]
    IN  /\ Len(kept) > 1
        /\ last # << >>
        /\ \/ \A i \in 1..Len(last) : IsDigit(last[i])
           \/ /\ Len(last) >= 2 /\ last[1] = 48 /\ last[2] \in {88, 120}
              /\ \A i \in 3..Len(last) : IsHex(last[i])

\* The host state, for the characters that follow the domain up to the port
\* or the path: they extend the host, which must stay a valid domain.
HostOk(ext) ==
    LET d == PercentDecode(ext)
    IN  /\ \A i \in 1..Len(d) : d[i] \notin ForbiddenDomain /\ d[i] # Replacement
        /\ ~EndsInNumber(d)

RECURSIVE Decimal(_)
Decimal(ds) ==
    IF ds = << >> THEN 0 ELSE 10 * Decimal(SubSeq(ds, 1, Len(ds) - 1)) + (ds[Len(ds)] - 48)

\* The port state: digits only, at most 65535.
PortOk(p) ==
    /\ \A i \in 1..Len(p) : IsDigit(p[i])
    /\ Len(p) <= 5
    /\ Decimal(p) <= 65535

\* The path percent-encode set (within ASCII).
PathEncodeSet == (0..32) \cup {34, 35, 60, 62, 63, 96, 123, 125, 127}

\* The special-query percent-encode set (within ASCII).
QueryEncodeSet == (0..32) \cup {34, 35, 39, 60, 62, 127}

Lower(c) == IF IsUpper(c) THEN c + 32 ELSE c

\* A single-dot segment: "." or "%2e"; a double-dot segment: two of them.
IsSingleDot(seg) ==
    LET l == [i \in 1..Len(seg) |-> Lower(seg[i])]
    IN  l \in { << 46 >>, << 37, 50, 101 >> }

IsDoubleDot(seg) ==
    LET l == [i \in 1..Len(seg) |-> Lower(seg[i])]
    IN  l \in { << 46, 46 >>, << 46, 37, 50, 101 >>, << 37, 50, 101, 46 >>,
                << 37, 50, 101, 37, 50, 101 >> }

\* The path state over the segments still to read, with the path built so far.
RECURSIVE PathSegments(_, _)
PathSegments(segs, path) ==
    IF segs = << >> THEN path
    ELSE LET seg == Head(segs)
             last == Len(segs) = 1
             popped == IF path = << >> THEN path ELSE SubSeq(path, 1, Len(path) - 1)
         IN  IF IsDoubleDot(seg)
             THEN PathSegments(Tail(segs), IF last THEN Append(popped, << >>) ELSE popped)
             ELSE IF IsSingleDot(seg)
             THEN PathSegments(Tail(segs), IF last THEN Append(path, << >>) ELSE path)
             ELSE PathSegments(Tail(segs), Append(path, PercentEncode(seg, PathEncodeSet)))

\* url.pathname of the raw path (empty, or starting with "/" or "\"): "\" is
\* read as "/", dot segments are resolved, the rest is percent-encoded.
Pathname(raw) ==
    IF raw = << >> THEN << 47 >>
    ELSE LET segs == PathSegments(Split(Tail(raw), {47, 92}), << >>)
         IN  << 47 >> \o Join(segs, << 47 >>)

\* application/x-www-form-urlencoded decoding of a name or a value.
FormDecode(s) ==
    PercentDecode([i \in 1..Len(s) |-> IF s[i] = 43 THEN 32 ELSE s[i]])

\* application/x-www-form-urlencoded encoding of a name or a value.
FormEncode(s) ==
    Flatten([i \in 1..Len(s) |->
        IF IsAlnum(s[i]) \/ s[i] \in {42, 45, 46, 95, HostMark} THEN << s[i] >>
        ELSE IF s[i] = 32 THEN << 43 >>
        ELSE Flatten([j \in 1..Len(Utf8Bytes(s[i])) |-> PercentByte(Utf8Bytes(s[i])[j])])])

\* The parameter list of a query string: split at "&", empty pieces skipped,
\* each piece split at its first "=".
RECURSIVE ParseQuery(_)
ParseQuery(pieces) ==
    IF pieces = << >> THEN << >>
    ELSE IF Head(pieces) = << >> THEN ParseQuery(Tail(pieces))
    ELSE LET p == Head(pieces)
             i == FirstIn(p, {61})
         IN  << << FormDecode(Before(p, i)), FormDecode(After(p, i)) >> >>
                 \o ParseQuery(Tail(pieces))

\* searchParams.toString()
Serialize(params) ==
    Join([i \in 1..Len(params) |->
            FormEncode(params[i][1]) \o << 61 >> \o FormEncode(params[i][2])],
         << 38 >>)

\* An origin written inside a longer string is the characters "https://" and
\* the host name.
ExpandOrigin(s) ==
    Flatten([i \in 1..Len(s) |->
        IF s[i] = OriginMark THEN << 104, 116, 116, 112, 115, 58, 47, 47, HostMark >>
        ELSE << s[i] >>])

\* The authority has been read: the characters after the domain extend the
\* host up to a ":", the port follows.
ParseAuthority(authority, raw, query) ==
    IF \/ ~HostOk(Before(authority, FirstIn(authority, {58})))
       \/ ~PortOk(After(authority, FirstIn(authority, {58})))
    THEN [ok |-> FALSE]
    ELSE [ok |-> TRUE,
          pathname |-> Pathname(raw),
          searchParams |-> ParseQuery(Split(PercentEncode(query, QueryEncodeSet), {38}))]

\* What precedes the query: the authority ends at the first "/" or "\",
\* where the path starts.
ParseFront(front, query) ==
    ParseAuthority(Before(front, FirstIn(front, {47, 92})),
                   IF FirstIn(front, {47, 92}) = 0 THEN << >>
                   ELSE SubSeq(front, FirstIn(front, {47, 92}), Len(front)),
                   query)

\* The query starts at the first "?".
ParseNoFragment(rest) ==
    ParseFront(Before(rest, FirstIn(rest, {63})), After(rest, FirstIn(rest, {63})))

\* What follows the origin: the fragment, from the first "#", is dropped.
ParseAfterOrigin(tail) == ParseNoFragment(Before(tail, FirstIn(tail, {35})))

ParseStripped(s) ==
    IF s = << >> \/ Head(s) # OriginMark THEN [ok |-> FALSE]
    ELSE ParseAfterOrigin(ExpandOrigin(Tail(s)))

\* new URL(input), with no base: [ok |-> FALSE] stands for the TypeError it
\* throws.  An input that does not begin with the origin has no scheme in
\* the model (it begins with "/", as request paths and signed links do).
ParseURL(input) == ParseStripped(StripRight(StripLeft(input)))

(***************************************************************************)
(* URLSearchParams, parseInt, HMAC and the constant-time comparison.       *)
(***************************************************************************)

\* searchParams.get(name): the first value under the name, or null.
RECURSIVE Get(_, _)
Get(params, name) ==
    IF params = << >> THEN [null |-> TRUE, value |-> << >>]
    ELSE IF Head(params)[1] = name THEN [null |-> FALSE, value |-> Head(params)[2]]
    ELSE Get(Tail(params), name)

\* searchParams.delete(name): every pair under the name goes.
Delete(params, name) == SelectSeq(params, LAMBDA p : p[1] # name)

\* searchParams.set(name, value): the first pair under the name takes the
\* value and the others go; with none, the pair is appended.
Set(params, name, value) ==
    LET i == CHOOSE k \in 0..Len(params) :
                 /\ k # 0 => params[k][1] = name
                 /\ \A j \in 1..Len(params) : params[j][1] = name => k # 0 /\ k <= j
    IN  IF i = 0 THEN Append(params, << name, value >>)
        ELSE SubSeq(params, 1, i - 1) \o << << name, value >> >>
                 \o Delete(SubSeq(params, i + 1, Len(params)), name)

\* String(n) of a natural number.
RECURSIVE ToDecimal(_)
ToDecimal(n) ==
    IF n < 10 THEN << 48 + n >> ELSE ToDecimal(n \div 10) \o << 48 + (n % 10) >>

\* The digits s starts with.
RECURSIVE DigitPrefix(_)
DigitPrefix(s) ==
    IF s # << >> /\ IsDigit(Head(s)) THEN << Head(s) >> \o DigitPrefix(Tail(s)) ELSE << >>

\* parseInt(v, 10) of what searchParams.get returned: leading white space
\* and one sign are skipped, the digits that follow are read; NaN without a
\* digit (and for null, read as the string "null").
ParseInt(v) ==
    LET t == StripLeft(v.value)
        signed == t # << >> /\ Head(t) \in {43, 45}
        ds == DigitPrefix(IF signed THEN Tail(t) ELSE t)
    IN  IF v.null \/ ds = << >> THEN [nan |-> TRUE, n |-> 0]
        ELSE [nan |-> FALSE,
              n |-> IF signed /\ Head(t) = 45 THEN 0 - Decimal(ds) ELSE Decimal(ds)]

\* process.env.DOWNLOAD_SECRET when it is set.
SecretKey == Str(<< "k" >>)

\* Bytes of a SHA-256 digest.
DigestBytes == 32

\* The byte a code is hashed as.
HashByte(c) == IF c = HostMark THEN 1 ELSE c

\* crypto.createHmac('sha256', key).update(data).digest('hex'): lower-case
\* hexadecimal digits.  The MAC is modelled as collision-free: the digits
\* spell the key and the data, filled up with "0" to the digest's length (and
\* longer than that when key and data do not fit).
HmacHex(key, data) ==
    LET bytes == [i \in 1..Len(key) |-> HashByte(key[i])] \o << 0 >>
                     \o [i \in 1..Len(data) |-> HashByte(data[i])]
        hex == Flatten([i \in 1..Len(bytes) |->
                   << LowerHexDigit(bytes[i] \div 16), LowerHexDigit(bytes[i] % 16) >>])
    IN  IF Len(hex) >= 2 * DigestBytes THEN hex
        ELSE hex \o [i \in 1..(2 * DigestBytes - Len(hex)) |-> 48]

\* A comparison that stops at the lengths.
LengthOnlyEqual(a, b) == ByteLength(a) = ByteLength(b)

\* crypto.timingSafeEqual(Buffer.from(a), Buffer.from(b)) inside try/catch:
\* buffers of different byte length raise a RangeError, caught as false.
TimingSafeEqualOrFalse(a, b) ==
    IF ByteLength(a) # ByteLength(b) THEN FALSE ELSE a = b

(***************************************************************************)
(* utils.js                                                                *)
(***************************************************************************)

\* A canonical form that puts exp first, whatever order the parameters came in.
SigningDataExpFirst(pathname, params) ==
    pathname \o << 63 >>
        \o Serialize(SelectSeq(params, LAMBDA p : p[1] = << 101, 120, 112 >>)
                       \o SelectSeq(params, LAMBDA p : p[1] # << 101, 120, 112 >>))

\* `${parsed.pathname}?${parsed.searchParams.toString()}`
SigningData(pathname, params) == pathname \o << 63 >> \o Serialize(params)

\* parsed.searchParams.set("sig", signature); return pathname + "?" + ...
SignedLink(pathname, withExp, secret) ==
    SigningData(pathname,
        Set(withExp, << 115, 105, 103 >>, HmacHex(secret.key, SigningData(pathname, withExp))))

\* generateSignedUrl once the URL is parsed.
SignParsed(parsed, lifetime, now, secret) ==
    IF ~parsed.ok \/ ~secret.set THEN [threw |-> TRUE, value |-> << >>]
    ELSE [threw |-> FALSE,
          value |-> SignedLink(parsed.pathname,
                        Set(parsed.searchParams, << 101, 120, 112 >>,
                            ToDecimal(now + lifetime)),
                        secret)]

\* generateSignedUrl(url, lifetime) at clock value now (seconds): either the
\* signed link or a raised TypeError (new URL of a string without a scheme,
\* createHmac without a key).
generateSignedUrl(url, lifetime, now, secret) ==
    SignParsed(ParseURL(url), lifetime, now, secret)

\* if (!exp || !sig) return false;
MissingField(exp, sig) == exp.nan \/ exp.n = 0 \/ sig.null \/ sig.value = << >>

\* An expiry test that already rejects in the last second.
ExpiredAtBoundary(now, exp) == now >= exp

\* if (now > exp) return false;
Expired(now, exp) == now > exp

\* verifySignedUrl from the exp and sig it has read.
VerifyFields(parsed, exp, sig, now, secret) ==
    IF MissingField(exp, sig) THEN "false"
    ELSE IF Expired(now, exp.n) THEN "false"
    ELSE IF ~secret.set THEN "throws"
    ELSE IF TimingSafeEqualOrFalse(sig.value,
                HmacHex(secret.key,
                        SigningData(parsed.pathname,
                                    Delete(parsed.searchParams, << 115, 105, 103 >>))))
         THEN "true" ELSE "false"

\* verifySignedUrl once the URL is parsed.
VerifyParsed(parsed, now, secret) ==
    IF ~parsed.ok THEN "throws"
    ELSE VerifyFields(parsed, ParseInt(Get(parsed.searchParams, << 101, 120, 112 >>)),
                      Get(parsed.searchParams, << 115, 105, 103 >>), now, secret)

\* verifySignedUrl(fullPath) at clock value now: "true", "false", or
\* "throws" for an error that leaves the function.
verifySignedUrl(fullPath, now, secret) == VerifyParsed(ParseURL(fullPath), now, secret)

(***************************************************************************)
(* Bounds of the model.                                                    *)
(***************************************************************************)

\* The clock (Unix seconds) runs from 0 to MaxClock.
MaxClock == 3

\* Lifetimes 1..MaxLifetime stand for the 300 and 900 seconds of the code.
MaxLifetime == 2

(***************************************************************************)
(* State.                                                                  *)
(***************************************************************************)

VARIABLES
    now,        \* Math.floor(Date.now() / 1000)
    secret,     \* process.env.DOWNLOAD_SECRET: [set, key]
    link,       \* the link generateSignedUrl returned, with how it was made
    request,    \* the request string (path and query) a caller presents
    how,        \* what the caller did to the link to get the request
    result,     \* the last call of verifySignedUrl on the request
    expiredAt,  \* when a call first returned false at "now > exp", or -1
    build,      \* which revision of server.js runs: "server.js" or "part_000"
    listening,  \* app.listen has been called
    sales,      \* the rows of the sales table, in order of insertion
    reqs        \* the requests the process has received, by slot

tokenVars == << link, request, how, result, expiredAt >>

serverVars == << build, listening, sales, reqs >>

vars == << now, secret, link, request, how, result, expiredAt, build, listening,
           sales, reqs >>

Unset == [set |-> FALSE, key |-> << >>]

\* The environments a process of the shop may be started in: no
\* DOWNLOAD_SECRET, the secret, or another secret (a rotated key).
Secrets == { Unset, [set |-> TRUE, key |-> SecretKey],
             [set |-> TRUE, key |-> Str(<< "j" >>)] }

NoLink == [set |-> FALSE, value |-> << >>, t0 |-> 0, lifetime |-> 0, secret |-> Unset]

NoResult == [call |-> "none", value |-> "none", at |-> 0, secret |-> Unset]

\* `${YOUR_DOMAIN}/api/download/${imageId}?tx=${transactionId}`
DownloadUrl(imageId, transactionId) ==
    YOUR_DOMAIN
        \o Str(<< "/", "a", "p", "i", "/", "d", "o", "w", "n", "l", "o", "a", "d", "/" >>)
        \o imageId \o Str(<< "?", "t", "x", "=" >>) \o transactionId

\* Asset ids and transaction ids links are signed for: a Stripe payment
\* intent id, and ids that need encoding in a query string.
ImageIds == { Str(<< "1" >>) }
TransactionIds ==
    { Str(<< "p", "i", "_", "1" >>), Str(<< "a", " ", "b" >>), Str(<< "a", "/", "b" >>) }

TokenTransactionIds == { Str(<< "p", "i", "_", "1" >>), Str(<< "a", "/", "b" >>) }

\* The permutations of 1..n.
Orders(n) ==
    { f \in [1..n -> 1..n] : \A i, j \in 1..n : f[i] = f[j] => i = j }

\* The raw query pieces ("name=value") of a request string.
Pieces(s) == Split(After(s, FirstIn(s, {63})), {38})

PathOf(s) == Before(s, FirstIn(s, {63}))

WithPieces(s, pieces) == PathOf(s) \o << 63 >> \o Join(pieces, << 38 >>)

\* The raw piece of the parameter called name ("exp", "sig"), and the others.
IsPiece(p, name) == Before(p, FirstIn(p, {61})) = name
Without(pieces, name) == SelectSeq(pieces, LAMBDA p : ~IsPiece(p, name))
Replaced(pieces, name, value) ==
    [i \in 1..Len(pieces) |->
        IF IsPiece(pieces[i], name) THEN name \o << 61 >> \o value ELSE pieces[i]]
ValueOf(pieces, name) ==
    LET p == SelectSeq(pieces, LAMBDA q : IsPiece(q, name))[1]
    IN  After(p, FirstIn(p, {61}))

EXP == Str(<< "e", "x", "p" >>)
SIG == Str(<< "s", "i", "g" >>)

\* Malformed requests made from a link.
Malformations ==
    { "noExp", "expNotNumeric", "expZero", "noSig", "sigEmpty", "sigShort",
      "sigLong", "sigNotHex" }

Malformed(s, kind) ==
    LET ps == Pieces(s)
        sig == ValueOf(ps, SIG)
    IN  WithPieces(s,
          CASE kind = "noExp" -> Without(ps, EXP)
            [] kind = "expNotNumeric" -> Replaced(ps, EXP, Str(<< "s", "o", "o", "n" >>))
            [] kind = "expZero" -> Replaced(ps, EXP, Str(<< "0" >>))
            [] kind = "noSig" -> Without(ps, SIG)
            [] kind = "sigEmpty" -> Replaced(ps, SIG, << >>)
            [] kind = "sigShort" -> Replaced(ps, SIG, SubSeq(sig, 1, Len(sig) - 1))
            [] kind = "sigLong" -> Replaced(ps, SIG, sig \o Str(<< "0" >>))
            [] kind = "sigNotHex" -> Replaced(ps, SIG, [sig EXCEPT ![1] = Ord("z")]))

\* At most MaxReq requests are received in one run of the process.
MaxReq == 2

Slots == 1..MaxReq

\* A slot no request has taken yet, and the fields a request carries: the
\* handler's position (pc) and local variables, what it has answered
\* (status, body, downloadUrl, written), and a record of what it did (steps,
\* verified, sold, found, origin), of whether its target was a link
\* fulfil-order had returned (returned), and of what the download route reads
\* from the URL it returned (embedded).
Free ==
    [kind |-> "free", pc |-> "free", sessionId |-> "",
     imageId |-> << >>, tx |-> << >>, status |-> 0, body |-> "",
     downloadUrl |-> << >>, steps |-> << >>, verified |-> "none", sold |-> "none",
     found |-> "none", origin |-> "none", written |-> 0, returned |-> FALSE,
     embedded |-> [match |-> FALSE, id |-> << >>, tx |-> [null |-> TRUE, value |-> << >>]]]

\* The token variables where no link is under test.
TokenIdle ==
    /\ link = NoLink
    /\ request = << >>
    /\ how = "none"
    /\ result = NoResult
    /\ expiredAt = -1

\* The server variables where no server runs.
ServerIdle ==
    /\ build = "server.js"
    /\ listening = FALSE
    /\ sales = << >>
    /\ reqs = [s \in Slots |-> Free]

(***************************************************************************)
(* The signer and the verifier on their own: a link is signed, a caller    *)
(* presents it as it is, reordered or malformed, and the verifier is       *)
(* called on the request string itself or on the absolute URL the download *)
(* handler of server.js makes of it.                                       *)
(***************************************************************************)

TokenInit ==
    /\ now = 0
    /\ secret \in Secrets
    /\ TokenIdle
    /\ ServerIdle

\* A second passes.
Tick ==
    /\ now < MaxClock
    /\ now' = now + 1
    /\ UNCHANGED << secret, link, request, how, result, expiredAt, serverVars >>

\* The process is restarted in another environment.
Restart ==
    /\ \E s \in Secrets : s # secret /\ secret' = s
    /\ UNCHANGED << now, link, request, how, result, expiredAt, serverVars >>

\* generateSignedUrl(url, lifetime) returns a link.
Sign(ids, txs) ==
    /\ ~link.set
    /\ \E imageId \in ids, tx \in txs, lifetime \in 1..MaxLifetime :
          LET signed == generateSignedUrl(DownloadUrl(imageId, tx), lifetime, now, secret)
          IN  /\ ~signed.threw
              /\ link' = [set |-> TRUE, value |-> signed.value, t0 |-> now,
                          lifetime |-> lifetime, secret |-> secret]
    /\ UNCHANGED << now, secret, request, how, result, expiredAt, serverVars >>

\* The caller presents the link as it was issued.
PresentUnmodified ==
    /\ link.set /\ how = "none"
    /\ request' = link.value
    /\ how' = "unmodified"
    /\ UNCHANGED << now, secret, link, result, expiredAt, serverVars >>

\* The caller (or a proxy on the way) presents the link's parameters in
\* another order.
PresentReordered ==
    /\ link.set /\ how = "none"
    /\ \E f \in Orders(Len(Pieces(link.value))) :
          LET ps == Pieces(link.value)
          IN  /\ \E i \in 1..Len(ps) : f[i] # i
              /\ request' = WithPieces(link.value, [i \in 1..Len(ps) |-> ps[f[i]]])
    /\ how' = "reordered"
    /\ UNCHANGED << now, secret, link, result, expiredAt, serverVars >>

\* The caller presents a malformed variant of the link.
PresentMalformed ==
    /\ link.set /\ how = "none"
    /\ \E kind \in Malformations :
          /\ request' = Malformed(link.value, kind)
          /\ how' = kind
    /\ UNCHANGED << now, secret, link, result, expiredAt, serverVars >>

\* The call returns at "if (now > exp) return false".
ReturnsAtExpiry(fullPath) ==
    LET parsed == ParseURL(fullPath)
        exp == ParseInt(Get(parsed.searchParams, EXP))
    IN  /\ parsed.ok
        /\ ~MissingField(exp, Get(parsed.searchParams, SIG))
        /\ Expired(now, exp.n)

\* One call verifySignedUrl(fullPath).
Verify(call, fullPath) ==
    /\ how # "none"
    /\ result' = [call |-> call, value |-> verifySignedUrl(fullPath, now, secret),
                  at |-> now, secret |-> secret]
    /\ expiredAt' = IF expiredAt = -1 /\ ReturnsAtExpiry(fullPath) THEN now ELSE expiredAt
    /\ UNCHANGED << now, secret, link, request, how, serverVars >>

\* verifySignedUrl(request): the request string as it is, which is what the
\* function's comment documents and the earlier download handler passes.
VerifyDirect == Verify("direct", request)

\* verifySignedUrl(`${YOUR_DOMAIN}${req.originalUrl}`), as the download
\* handler of server.js calls it.
VerifyAsHandler == Verify("handler", YOUR_DOMAIN \o request)

TokenNext ==
    \/ Tick
    \/ Restart
    \/ Sign(ImageIds, TokenTransactionIds)
    \/ PresentUnmodified
    \/ PresentReordered
    \/ PresentMalformed
    \/ VerifyDirect
    \/ VerifyAsHandler

SpecToken == TokenInit /\ [][TokenNext]_vars

(***************************************************************************)
(* Tampering: one character of an issued link is changed, inside the path, *)
(* inside a parameter value or inside the signature, and the request is    *)
(* verified as the download handler of server.js presents it.              *)
(***************************************************************************)

\* The characters a position may be changed to.
TamperChars ==
    { Ord(c) : c \in { "\\", "/", "2", "F", "f", "z", " ", "+", "%", "&", "=", "?",
                       "#", ":", "." } }

\* The part of the link position i lies in: "path", "value" (of tx or exp),
\* "sig", or "other" (a delimiter or a parameter name).
Region(s, i) ==
    LET q == FirstIn(s, {63})
        marks == {j \in q..(i - 1) : s[j] \in {63, 38}}
        start == CHOOSE j \in marks : \A k \in marks : k <= j
        piece == SubSeq(s, start + 1, i)
        eq == FirstIn(piece, {61})
    IN  IF i < q THEN "path"
        ELSE IF i = q \/ s[i] = 38 \/ eq = 0 \/ eq = Len(piece) THEN "other"
        ELSE IF Before(piece, eq) = SIG THEN "sig"
        ELSE "value"

TamperInit ==
    /\ now = 0
    /\ secret = [set |-> TRUE, key |-> SecretKey]
    /\ TokenIdle
    /\ ServerIdle

Tamper ==
    /\ link.set /\ how = "none"
    /\ \E i \in 1..Len(link.value), c \in TamperChars :
          /\ Region(link.value, i) # "other"
          /\ c # link.value[i]
          /\ request' = [link.value EXCEPT ![i] = c]
          /\ how' = Region(link.value, i)
    /\ UNCHANGED << now, secret, link, result, expiredAt, serverVars >>

TamperNext ==
    \/ Sign(ImageIds, TransactionIds)
    \/ Tamper
    \/ VerifyAsHandler

SpecTamper == TamperInit /\ [][TamperNext]_vars

(***************************************************************************)
(* Claims about the signer and the verifier.                               *)
(***************************************************************************)

Unexpired == result.at <= link.t0 + link.lifetime

\* C1: verifySignedUrl applied to the very string generateSignedUrl returned,
\* under the same secret and in the same second, returns true.
C1_RoundTrip ==
    (how = "unmodified" /\ result.call = "direct"
        /\ result.secret = link.secret /\ result.at = link.t0)
    => result.value = "true"

\* C2: an unmodified link, verified as the download handler presents it and
\* under the secret it was signed with, is accepted at every second up to and
\* including t0 + lifetime and rejected at every later second; and after a
\* check returned false at the expiry test no check of that request succeeds.
C2_Expiry ==
    /\ (how = "unmodified" /\ result.call = "handler" /\ result.secret = link.secret)
       => /\ result.at <= link.t0 + link.lifetime => result.value = "true"
          /\ result.at > link.t0 + link.lifetime => result.value = "false"
    /\ (expiredAt # -1 /\ result.call # "none" /\ result.at >= expiredAt)
       => result.value # "true"

\* C2's case: the link is accepted in its last second.
C2_Witness ==
    /\ how = "unmodified" /\ result.call = "handler"
    /\ result.at = link.t0 + link.lifetime
    /\ result.value = "true"

Tampered == how \in { "path", "value", "sig" }

Canonical(s) == ParseURL(YOUR_DOMAIN \o s)

C5_Total ==
    result.call # "none"
    => /\ result.value \in { "true", "false" }
       /\ how \in Malformations => result.value = "false"

\* The parameters other than sig, in the order the URL parser reads them.
SignedParams(s) == Delete(Canonical(s).searchParams, SIG)

\* C10 as stated: a request with the link's parameters in another order is
\* rejected.
C10_ReorderRejected ==
    (how = "reordered" /\ result.call = "handler" /\ result.secret = link.secret)
    => result.value = "false"

\* C10 as amended: under the signing secret and before expiry, an unmodified
\* link verifies, and a request with the same parameters in another order is
\* rejected exactly when the order of the parameters other than sig has
\* changed (exp before tx); where sig stands does not matter.
C10_OrderOfSignedParams ==
    (how \in { "unmodified", "reordered" } /\ result.call = "handler"
        /\ result.secret = link.secret /\ Unexpired)
    => (result.value = "true" <=> SignedParams(request) = SignedParams(link.value))

\* C10's case: exp is presented before tx and the request is rejected.
C10_Witness ==
    /\ how = "reordered" /\ result.call = "handler"
    /\ result.secret = link.secret /\ Unexpired
    /\ SignedParams(request)[1][1] = EXP
    /\ result.value = "false"

(***************************************************************************)
(* server.js: the process, the fulfil-order handler and the download       *)
(* handler.  Each await of a handler ends one step; the store (pool.query) *)
(* and Stripe answer every call, the asset origin may fail.                *)
(***************************************************************************)

\* The number of chunks of an asset body.
MaxChunks == 1

Builds == { "server.js", "part_000" }

\* stripe.checkout.sessions.retrieve(sessionId): a paid session, a session
\* still unpaid, a paid session whose image has left the catalog since, and
\* an id Stripe does not know (the call rejects).
SessionIds == { "cs_paid", "cs_open", "cs_gone", "cs_unknown" }

Session(sessionId) ==
    CASE sessionId = "cs_paid" ->
            [known |-> TRUE, payment_status |-> "paid", imageId |-> Str(<< "1" >>),
             payment_intent |-> Str(<< "p", "i", "_", "1" >>)]
      [] sessionId = "cs_open" ->
            [known |-> TRUE, payment_status |-> "unpaid", imageId |-> Str(<< "1" >>),
             payment_intent |-> << >>]
      [] sessionId = "cs_gone" ->
            [known |-> TRUE, payment_status |-> "paid", imageId |-> Str(<< "3" >>),
             payment_intent |-> Str(<< "p", "i", "_", "3" >>)]
      [] OTHER ->
            [known |-> FALSE, payment_status |-> "", imageId |-> << >>,
             payment_intent |-> << >>]

\* The ids of the images table: the two sample rows initializeDatabase inserts.
Catalog == { Str(<< "1" >>), Str(<< "2" >>) }

\* "SELECT * FROM sales WHERE imageid = $1 AND transactionid = $2"
LedgerLookup(rows, imageId, transactionId) ==
    SelectSeq(rows, LAMBDA r : r.imageId = imageId /\ r.transactionId = transactionId)

\* A ledger test that lets every request through.
LedgerMissNever(rows) == FALSE

\* if (saleResult.rows.length === 0)
LedgerMiss(rows) == Len(rows) = 0

\* if (!transactionId)
TxMissing(tx) == tx.null \/ tx.value = << >>

\* A signature test that only stops on a thrown error.
SignatureOkUnlessThrown(v) == v # "throws"

\* if (!utils.verifySignedUrl(...)) return res.status(403)...
SignatureOk(v) == v = "true"

\* What the handler passes to verifySignedUrl: `${YOUR_DOMAIN}${req.originalUrl}`
\* in server.js, req.originalUrl in the earlier revision.
Presented(b, originalUrl) ==
    IF b = "server.js" THEN YOUR_DOMAIN \o originalUrl ELSE originalUrl

DownloadPrefix ==
    Str(<< "/", "a", "p", "i", "/", "d", "o", "w", "n", "l", "o", "a", "d", "/" >>)

\* The route '/api/download/:id' on the parsed request target: whether it
\* matches, req.params.id and req.query.tx.
RouteParsed(parsed, id) ==
    IF /\ parsed.ok
       /\ Len(parsed.pathname) > Len(DownloadPrefix)
       /\ SubSeq(parsed.pathname, 1, Len(DownloadPrefix)) = DownloadPrefix
       /\ \A i \in 1..Len(id) : id[i] # 47
    THEN [match |-> TRUE, id |-> PercentDecode(id),
          tx |-> Get(parsed.searchParams, << 116, 120 >>)]
    ELSE [match |-> FALSE, id |-> << >>, tx |-> [null |-> TRUE, value |-> << >>]]

RouteUrl(parsed) ==
    RouteParsed(parsed,
        IF parsed.ok
        THEN SubSeq(parsed.pathname, Len(DownloadPrefix) + 1, Len(parsed.pathname))
        ELSE << >>)

\* Express on the request target (origin form, or absolute form as a proxy
\* sends it).
Routed(originalUrl) ==
    RouteUrl(ParseURL(IF originalUrl # << >> /\ Head(originalUrl) = OriginMark
                      THEN originalUrl ELSE YOUR_DOMAIN \o originalUrl))

\* Links signed under the secret in second 0 that the ledger need not back:
\* issued by another instance that shares the secret, or before the store
\* was replaced.
ForeignLinks ==
    { generateSignedUrl(DownloadUrl(Session(c).imageId, Session(c).payment_intent),
                        MaxLifetime, 0, [set |-> TRUE, key |-> SecretKey]).value :
        c \in { "cs_paid", "cs_gone" } }

\* The request targets a caller may send for a link: the link as returned
\* (origin form) and in absolute form, as a forward proxy sends it.
Targets(l) == { l, YOUR_DOMAIN \o l }

\* Request targets made from a link: without its tx, and with a forged
\* signature.
Forgeries ==
    UNION { { WithPieces(l, Without(Pieces(l), Str(<< "t", "x" >>))),
              Malformed(l, "sigNotHex") } : l \in ForeignLinks }

\* The links fulfil-order has returned so far.
ReturnedLinks ==
    { reqs[s].downloadUrl : s \in { x \in Slots : reqs[x].downloadUrl # << >> } }

Init ==
    /\ now = 0
    /\ secret \in { Unset, [set |-> TRUE, key |-> SecretKey] }
    /\ TokenIdle
    /\ build \in Builds
    /\ listening = FALSE
    /\ sales = << >>
    /\ reqs = [s \in Slots |-> Free]

\* app.listen(port, host, ...): nothing is checked before it.
Listen ==
    /\ ~listening
    /\ listening' = TRUE
    /\ UNCHANGED << now, secret, tokenVars, build, sales, reqs >>

\* The slot the next request takes.
NextSlot(s) == reqs[s].kind = "free" /\ \A x \in Slots : x < s => reqs[x].kind # "free"

Respond(r, status, body) == [r EXCEPT !.pc = "done", !.status = status, !.body = body]

\* POST /api/fulfill-order arrives: stripe.checkout.sessions.retrieve is called.
FulfilReceive ==
    /\ listening
    /\ \E s \in Slots, sessionId \in SessionIds :
          /\ NextSlot(s)
          /\ reqs' = [reqs EXCEPT ![s] =
                [Free EXCEPT !.kind = "fulfil", !.pc = "retrieve", !.sessionId = sessionId]]
    /\ UNCHANGED << now, secret, tokenVars, build, listening, sales >>

\* Stripe answers: an unknown session ends in the catch (500), an unpaid one
\* in 400, for a paid one the INSERT is sent.
FulfilRetrieved ==
    /\ \E s \in Slots :
          LET r == reqs[s]
              session == Session(r.sessionId)
          IN  /\ r.kind = "fulfil" /\ r.pc = "retrieve"
              /\ reqs' = [reqs EXCEPT ![s] =
                    IF ~session.known THEN Respond(r, 500, "error")
                    ELSE IF session.payment_status # "paid"
                    THEN Respond(r, 400, "Payment not successful.")
                    ELSE [r EXCEPT !.pc = "insert", !.imageId = session.imageId,
                                   !.tx = session.payment_intent]]
    /\ UNCHANGED << now, secret, tokenVars, build, listening, sales >>

\* A fulfilment that goes on to the SELECT with no sale written.
FulfilSkipsInsert ==
    /\ \E s \in Slots :
          /\ reqs[s].kind = "fulfil" /\ reqs[s].pc = "insert"
          /\ reqs' = [reqs EXCEPT ![s].pc = "select"]
    /\ UNCHANGED << now, secret, tokenVars, build, listening, sales >>

\* The store runs the INSERT INTO sales; the SELECT on images is sent.
FulfilInserted ==
    /\ \E s \in Slots :
          LET r == reqs[s]
          IN  /\ r.kind = "fulfil" /\ r.pc = "insert"
              /\ sales' = Append(sales, [imageId |-> r.imageId, transactionId |-> r.tx])
              /\ reqs' = [reqs EXCEPT ![s] = [r EXCEPT !.pc = "select"]]
    /\ UNCHANGED << now, secret, tokenVars, build, listening >>

\* The store answers the SELECT: 404 without the image; otherwise the link
\* is signed and returned, or the error generateSignedUrl raised is caught (500).
FulfilSelected ==
    /\ \E s \in Slots :
          LET r == reqs[s]
              signed == generateSignedUrl(DownloadUrl(r.imageId, r.tx), MaxLifetime,
                                          now, secret)
          IN  /\ r.kind = "fulfil" /\ r.pc = "select"
              /\ reqs' = [reqs EXCEPT ![s] =
                    IF r.imageId \notin Catalog
                    THEN Respond(r, 404, "Image not found for fulfillment.")
                    ELSE IF signed.threw THEN Respond(r, 500, "error")
                    ELSE [Respond(r, 200, "success")
                             EXCEPT !.downloadUrl = signed.value,
                                    !.embedded = Routed(signed.value)]]
    /\ UNCHANGED << now, secret, tokenVars, build, listening, sales >>

\* The download request as it arrives.
Arrived(routed) ==
    [Free EXCEPT !.kind = "download", !.imageId = routed.id, !.tx = routed.tx.value]

\* The request target is a link fulfil-order has returned, as returned or in
\* absolute form.
Unmodified(url) == \E l \in ReturnedLinks : url \in Targets(l)

\* The handler up to its first await, on request r: tx is the tx parameter,
\* v what verifySignedUrl does.
Checked(r, tx, v) ==
    IF TxMissing(tx)
    THEN [Respond(r, 401, "Missing transaction token")
             EXCEPT !.steps = << "ParameterCheck" >>]
    ELSE IF v = "throws"
    THEN [r EXCEPT !.pc = "unhandled", !.verified = v,
                   !.steps = << "ParameterCheck", "SignatureCheck" >>]
    ELSE IF ~SignatureOk(v)
    THEN [Respond(r, 403, "Invalid or expired link")
             EXCEPT !.verified = v, !.steps = << "ParameterCheck", "SignatureCheck" >>]
    ELSE [r EXCEPT !.pc = "ledger", !.verified = v,
                   !.steps = << "ParameterCheck", "SignatureCheck" >>]

\* GET /api/download/:id arrives: the tx parameter is required, the link is
\* verified, and the ledger query is sent.  An error verifySignedUrl raises
\* leaves the handler, which answers nothing.
DownloadReceive ==
    /\ listening
    /\ \E s \in Slots :
       /\ NextSlot(s)
       /\ \E url \in Forgeries \cup UNION { Targets(l) : l \in ForeignLinks \cup ReturnedLinks } :
          /\ Routed(url).match
          /\ reqs' = [reqs EXCEPT ![s] =
                Checked([Arrived(Routed(url)) EXCEPT !.returned = Unmodified(url)],
                        Routed(url).tx,
                        verifySignedUrl(Presented(build, url), now, secret))]
    /\ UNCHANGED << now, secret, tokenVars, build, listening, sales >>

\* The store answers the ledger query: without a row the request ends as
\* "Unauthorized download", with one the catalog query is sent.
DownloadLedger ==
    /\ \E s \in Slots :
          LET r == reqs[s]
              rows == LedgerLookup(sales, r.imageId, r.tx)
              seen == [r EXCEPT !.steps = Append(r.steps, "LedgerCheck"),
                                !.sold = IF \E i \in 1..Len(sales) :
                                               /\ sales[i].imageId = r.imageId
                                               /\ sales[i].transactionId = r.tx
                                         THEN "yes" ELSE "no"]
          IN  /\ r.kind = "download" /\ r.pc = "ledger"
              /\ reqs' = [reqs EXCEPT ![s] =
                    IF LedgerMiss(rows) THEN Respond(seen, 403, "Unauthorized download")
                    ELSE [seen EXCEPT !.pc = "catalog"]]
    /\ UNCHANGED << now, secret, tokenVars, build, listening, sales >>

\* The store answers the catalog query: 404 without the image, otherwise
\* fetch(image.url) is called.
DownloadCatalog ==
    /\ \E s \in Slots :
          LET r == reqs[s]
              seen == [r EXCEPT !.steps = Append(r.steps, "CatalogLookup"),
                                !.found = IF r.imageId \in Catalog THEN "yes" ELSE "no"]
          IN  /\ r.kind = "download" /\ r.pc = "catalog"
              /\ reqs' = [reqs EXCEPT ![s] =
                    IF r.imageId \notin Catalog THEN Respond(seen, 404, "Image not found")
                    ELSE [seen EXCEPT !.pc = "fetch", !.steps = Append(seen.steps, "Fetch")]]
    /\ UNCHANGED << now, secret, tokenVars, build, listening, sales >>

\* The fetch settles: it rejects, or resolves with an OK or a non-OK
\* response.  server.js has no catch and no test of response.ok: a rejection
\* leaves the request unanswered, any response is piped to the caller.  The
\* earlier revision answers 500 to both failures, and to the TypeError of
\* response.body.pipe where fetch returns a web stream (pipes = FALSE).
DownloadFetched ==
    /\ \E s \in Slots, outcome \in { "ok", "notOk", "reject" }, pipes \in BOOLEAN :
          LET r == [reqs[s] EXCEPT !.origin = outcome]
              streaming == [r EXCEPT !.pc = "streaming", !.status = 200, !.body = "asset",
                                     !.steps = Append(r.steps, "Streaming")]
          IN  /\ r.kind = "download" /\ r.pc = "fetch"
              /\ reqs' = [reqs EXCEPT ![s] =
                    IF build = "server.js"
                    THEN IF outcome = "reject" THEN [r EXCEPT !.pc = "unhandled"]
                         ELSE streaming
                    ELSE IF outcome = "reject" THEN Respond(r, 500, "error")
                         ELSE IF outcome = "notOk" THEN Respond(r, 500, "Failed to fetch file.")
                         ELSE IF pipes THEN streaming
                         ELSE Respond(r, 500, "error")]
    /\ UNCHANGED << now, secret, tokenVars, build, listening, sales >>

\* res.write(chunk)
DownloadWrite ==
    /\ \E s \in Slots :
          /\ reqs[s].kind = "download" /\ reqs[s].pc = "streaming"
          /\ reqs[s].written < MaxChunks
          /\ reqs' = [reqs EXCEPT ![s].written = @ + 1]
    /\ UNCHANGED << now, secret, tokenVars, build, listening, sales >>

\* res.end(), after the last chunk of the body.
DownloadClose ==
    /\ \E s \in Slots :
          /\ reqs[s].kind = "download" /\ reqs[s].pc = "streaming"
          /\ reqs[s].written = MaxChunks
          /\ reqs' = [reqs EXCEPT ![s].pc = "done"]
    /\ UNCHANGED << now, secret, tokenVars, build, listening, sales >>

Next ==
    \/ Listen
    \/ Tick
    \/ FulfilReceive
    \/ FulfilRetrieved
    \/ FulfilInserted
    \/ FulfilSelected
    \/ DownloadReceive
    \/ DownloadLedger
    \/ DownloadCatalog
    \/ DownloadFetched
    \/ DownloadWrite
    \/ DownloadClose

Spec == Init /\ [][Next]_vars

(***************************************************************************)
(* Properties of the server.                                               *)
(***************************************************************************)

Downloads == { s \in Slots : reqs[s].kind = "download" }

Has(steps, step) == \E i \in 1..Len(steps) : steps[i] = step

\* An asset response has been started for request r, or bytes of one written.
Streamed(r) == Has(r.steps, "Streaming") \/ r.body = "asset" \/ r.written > 0

\* C4: a download request whose link verified is streamed only if the ledger
\* held a sale for its image and transaction at lookup time; if it held none,
\* the request ends as 403 "Unauthorized download" with neither the catalog
\* lookup nor the fetch performed.
C4_LedgerGating ==
    \A s \in Downloads :
        LET r == reqs[s]
        IN  /\ Streamed(r) => (r.verified = "true" /\ r.sold = "yes")
            /\ r.sold = "no" =>
                  /\ r.pc = "done" /\ r.status = 403 /\ r.body = "Unauthorized download"
                  /\ ~Has(r.steps, "CatalogLookup") /\ ~Has(r.steps, "Fetch")
                  /\ ~Streamed(r)

\* C4's case: a request whose link verified is stopped by the ledger, which
\* holds no sale for its image and transaction.
C4_Witness ==
    \E s \in Downloads :
        /\ reqs[s].verified = "true" /\ reqs[s].sold = "no"
        /\ reqs[s].body = "Unauthorized download"

\* C6: the ledger holds at most one sale per (image id, transaction id).
C6_OneSalePerPair ==
    \A i, j \in 1..Len(sales) :
        (sales[i].imageId = sales[j].imageId
            /\ sales[i].transactionId = sales[j].transactionId) => i = j

StepOrder ==
    << "ParameterCheck", "SignatureCheck", "LedgerCheck", "CatalogLookup", "Fetch",
       "Streaming" >>

Rejections ==
    { "Missing transaction token", "Invalid or expired link", "Unauthorized download",
      "Image not found" }

\* The step at which each rejection is decided.
RejectedAt(body) ==
    CASE body = "Missing transaction token" -> "ParameterCheck"
      [] body = "Invalid or expired link" -> "SignatureCheck"
      [] body = "Unauthorized download" -> "LedgerCheck"
      [] OTHER -> "CatalogLookup"

\* C7: the steps of a download request are an initial part of ParameterCheck,
\* SignatureCheck, LedgerCheck, CatalogLookup, Fetch, Streaming; the ledger is
\* queried only with tx present and the link verified, the asset is fetched
\* only after a ledger match and a catalog hit, and a rejected request ends
\* at the step that rejected it with no byte written.
C7_CheckOrder ==
    \A s \in Downloads :
        LET r == reqs[s]
        IN  /\ Len(r.steps) <= Len(StepOrder)
            /\ r.steps = SubSeq(StepOrder, 1, Len(r.steps))
            /\ Has(r.steps, "LedgerCheck") => (r.tx # << >> /\ r.verified = "true")
            /\ Has(r.steps, "Fetch") => (r.sold = "yes" /\ r.found = "yes")
            /\ r.body \in Rejections =>
                  /\ r.pc = "done" /\ r.written = 0 /\ r.status \in { 401, 403, 404 }
                  /\ r.steps # << >> /\ r.steps[Len(r.steps)] = RejectedAt(r.body)

\* C7's case: a request has run every step in order and written a chunk.
C7_Witness ==
    \E s \in Downloads :
        /\ reqs[s].steps = StepOrder /\ reqs[s].written > 0
        /\ reqs[s].sold = "yes" /\ reqs[s].found = "yes"

\* C8: once the fetch of an authorised request has failed (rejected, or a
\* non-OK response), the request has ended with a 5xx response and nothing of
\* the origin answer is written.
C8_FetchFailure ==
    \A s \in Downloads :
        reqs[s].origin \in { "reject", "notOk" } =>
            /\ reqs[s].pc = "done" /\ reqs[s].status \in 500..599
            /\ reqs[s].written = 0

\* C9: without the secret the process never listens, takes no request and
\* writes no sale.
C9_MissingSecretFatal ==
    ~secret.set =>
        /\ ~listening
        /\ \A s \in Slots : reqs[s].kind = "free"
        /\ sales = << >>

\* The fulfil-order requests that have returned a download URL.
Issued == { s \in Slots : reqs[s].kind = "fulfil" /\ reqs[s].downloadUrl # << >> }

\* The ledger holds a sale for the image id and transaction id that the
\* download route reads from a URL.
Backed(routed) ==
    /\ routed.match
    /\ ~routed.tx.null
    /\ LedgerLookup(sales, routed.id, routed.tx.value) # << >>

\* C11: every download URL fulfil-order has returned was issued for a paid
\* session and the ledger holds the sale for the image id and transaction id
\* embedded in it (from the step that signed it on); and a request for such a
\* URL, unmodified, finds its sale at the ledger lookup and never ends as
\* "Unauthorized download".
C11_IssuedBacked ==
    /\ \A s \in Issued :
          /\ Session(reqs[s].sessionId).payment_status = "paid"
          /\ Backed(reqs[s].embedded)
    /\ \A s \in Downloads :
          reqs[s].returned =>
              /\ reqs[s].sold # "no"
              /\ reqs[s].body # "Unauthorized download"

\* C11's case: a returned URL, presented unmodified and unexpired, has
\* passed the ledger lookup.
C11_Witness ==
    /\ Issued # { }
    /\ \E s \in Downloads :
          /\ reqs[s].returned /\ reqs[s].verified = "true"
          /\ reqs[s].sold = "yes"

====
